---------------------------- MODULE Spec2Model ----------------------------
(***************************************************************************)
(* Model of the sentence splitter of src/src/lib.rs.                       *)
(*                                                                         *)
(* A text is a sequence of characters, each character a one-character     *)
(* string.  SentenceSplitter::new builds the prefix table from the table   *)
(* bundled for the language; SentenceSplitter::split scans the text one    *)
(* loop iteration per step.  Indices into chars are 0-based as in the      *)
(* source, so the source's chars[i] is written chars[i + 1].               *)
(***************************************************************************)
EXTENDS Integers, Sequences, FiniteSets, TLC

VARIABLES
    pc,                       \* position of the caller / of the running call
    language,                 \* argument of new (dead once split is called)
    non_breaking_prefix_file, \* argument of new (dead once split is called)
    new_result,               \* what new returned
    non_breaking_prefixes,    \* the splitter's only field, lib.rs:87
    text,                     \* argument of the running / last split call
    chars, i, current, sentences, in_quotes, quote_char,  \* locals of split
    result,                   \* what the last split call returned
    resplit,                  \* whether the last call split joined output
    prev,                     \* what the split call before the last returned
    non_breaking_prefixes_file_contents,  \* source text the loader reads
    reader                    \* lines of the source not yet read

vars == <<pc, language, non_breaking_prefix_file, new_result,
          non_breaking_prefixes, text, chars, i, current, sentences,
          in_quotes, quote_char, result, resplit, prev,
          non_breaking_prefixes_file_contents, reader>>

---------------------------------------------------------------------------
(* Bounds of the model.                                                    *)

\* Longest text of the exhaustively enumerated inputs.
MaxLen == 4

\* Most lines of the enumerated prefix sources.
MaxLines == 3

---------------------------------------------------------------------------
(* Characters and the std / regex character classes the source uses.       *)

UpperLetters ==
    {"A", "B", "C", "D", "E", "F", "G", "H", "I", "J", "K", "L", "M", "N",
     "O", "P", "Q", "R", "S", "T", "U", "V", "W", "X", "Y", "Z"}

Digits == {"0", "1", "2", "3", "4", "5", "6", "7", "8", "9"}

\* Numeric characters that are no digits (Unicode No / Nl).
OtherNumerics == {"½"}

WhitespaceChars == {" ", "\n", "\t"}

\* char::is_whitespace, and the regex class \s
IsWhitespace(c) == c \in WhitespaceChars

\* char::is_uppercase
IsUppercase(c) == c \in UpperLetters

\* char::is_numeric: the Unicode categories Nd, Nl and No
IsNumeric(c) == c \in Digits \cup OtherNumerics

\* the regex class [\p{Lu}\-] of ACRONYM_RE
IsUpperOrHyphen(c) == c \in UpperLetters \cup {"-"}

\* the regex class [a-z] of the language-code pattern
IsAsciiLower(c) ==
    c \in {"a", "b", "c", "d", "e", "f", "g", "h", "i", "j", "k", "l", "m",
           "n", "o", "p", "q", "r", "s", "t", "u", "v", "w", "x", "y", "z"}

\* c == '.' || c == '?' || c == '!'
IsTerminator(c) == c \in {".", "?", "!"}

---------------------------------------------------------------------------
(* String helpers of the standard library, on character sequences.         *)

\* s[a..b] with 1-based inclusive positions; empty when a > b
Slice(s, a, b) == [k \in 1..(b - a + 1) |-> s[a + k - 1]]

\* first position of s holding no whitespace, Len(s) + 1 if none
FirstNonWs(s) ==
    IF \E k \in 1..Len(s) : ~IsWhitespace(s[k])
    THEN CHOOSE k \in 1..Len(s) :
             /\ ~IsWhitespace(s[k])
             /\ \A j \in 1..(k - 1) : IsWhitespace(s[j])
    ELSE Len(s) + 1

\* last position of s holding no whitespace, 0 if none
LastNonWs(s) ==
    IF \E k \in 1..Len(s) : ~IsWhitespace(s[k])
    THEN CHOOSE k \in 1..Len(s) :
             /\ ~IsWhitespace(s[k])
             /\ \A j \in (k + 1)..Len(s) : IsWhitespace(s[j])
    ELSE 0

\* str::trim
Trim(s) == Slice(s, FirstNonWs(s), LastNonWs(s))

\* str::trim_start
TrimStart(s) == Slice(s, FirstNonWs(s), Len(s))

\* str::contains with a string pattern
Contains(s, sub) ==
    \E k \in 0..(Len(s) - Len(sub)) :
        \A j \in 1..Len(sub) : s[k + j] = sub[j]

\* str::split(sep).next(): the text before the first sep
BeforeFirst(s, sep) ==
    IF \E k \in 1..Len(s) : s[k] = sep
    THEN Slice(s, 1, (CHOOSE k \in 1..Len(s) :
                          /\ s[k] = sep
                          /\ \A j \in 1..(k - 1) : s[j] /= sep) - 1)
    ELSE s

\* str::split_whitespace().last().unwrap_or(""): the last maximal run of
\* non-whitespace characters
LastWord(s) ==
    LET e == LastNonWs(s)
        b == IF \E k \in 1..e : IsWhitespace(s[k])
             THEN (CHOOSE k \in 1..e :
                       /\ IsWhitespace(s[k])
                       /\ \A j \in (k + 1)..e : ~IsWhitespace(s[j])) + 1
             ELSE 1
    IN  Slice(s, b, e)

\* str::trim_end_matches(|c| c == '.' || c == '!' || c == '?')
TrimEndTerminators(s) ==
    LET e == IF \E k \in 1..Len(s) : ~IsTerminator(s[k])
             THEN CHOOSE k \in 1..Len(s) :
                      /\ ~IsTerminator(s[k])
                      /\ \A j \in (k + 1)..Len(s) : IsTerminator(s[j])
             ELSE 0
    IN  Slice(s, 1, e)

\* BufRead::lines: the pieces between line feeds, a trailing carriage
\* return dropped from each, no empty piece after a final line feed
RECURSIVE Lines(_)
Lines(s) ==
    IF s = <<>> THEN <<>>
    ELSE LET raw  == BeforeFirst(s, "\n")
             line == IF raw /= <<>> /\ raw[Len(raw)] = "\r"
                     THEN Slice(raw, 1, Len(raw) - 1) ELSE raw
         IN  <<line>> \o Lines(Slice(s, Len(raw) + 2, Len(s)))

---------------------------------------------------------------------------
(* The prefix table: lib.rs:40-88 and the loader of new, lib.rs:142-170.   *)

\* enum PrefixType
PrefixType == {"Default", "NumericOnly"}

\* the literal searched for in a line of a prefix source
NUMERIC_ONLY_MARKER ==
    <<"#", "N", "U", "M", "E", "R", "I", "C", "_", "O", "N", "L", "Y",
       "#">>

\* The language codes of the bundled tables.
BundledLanguages ==
    {<<"c", "a">>, <<"c", "s">>, <<"d", "a">>, <<"d", "e">>, <<"e", "l">>,
     <<"e", "n">>, <<"e", "s">>, <<"f", "i">>, <<"f", "r">>, <<"h", "u">>,
     <<"i", "s">>, <<"i", "t">>, <<"l", "t">>, <<"l", "v">>, <<"n", "l">>,
     <<"n", "o">>, <<"p", "l">>, <<"p", "t">>, <<"r", "o">>, <<"r", "u">>,
     <<"s", "k">>, <<"s", "l">>, <<"s", "v">>, <<"t", "r">>}

\* The bundled files are text assets outside the source tree.  The model
\* stands small sources of the same format in their place: "No" is
\* NumericOnly and "Prefix" absent in the English one, "Dr" is Default in
\* the German one, and the one-letter key "v" is Default in English and
\* NumericOnly in German.
EnSource ==
    <<"#", " ", "E", "n", "g", "l", "i", "s", "h", "\n", "\n", "v", "\n",
       "D", "r", "\n", "N", "o", " ", "#", "N", "U", "M", "E", "R", "I",
       "C", "_", "O", "N", "L", "Y", "#", "\n">>

DeSource ==
    <<"#", " ", "G", "e", "r", "m", "a", "n", "\n", "D", "r", " ", " ",
       "\n", " ", "v", " ", "#", "N", "U", "M", "E", "R", "I", "C", "_",
       "O", "N", "L", "Y", "#", "\n", "#", " ", "N", "r", "\n">>

OtherSource ==
    <<"#", " ", "o", "t", "h", "e", "r", "\n">>

\* static ref NON_BREAKING_PREFIXES: language code -> source text
NON_BREAKING_PREFIXES ==
    [l \in BundledLanguages |->
        CASE l = <<"e", "n">> -> EnSource
          [] l = <<"d", "e">> -> DeSource
          [] OTHER -> OtherSource]

\* HashMap::contains_key
ContainsKey(table, word) == \E e \in table : e.key = word

\* HashMap::get(..).unwrap(), for a key the table holds
Get(table, word) == (CHOOSE e \in table : e.key = word).kind

\* Mutant: an entry of the same key is kept
InsertIfAbsent(table, k, v) ==
    IF \E e \in table : e.key = k THEN table
    ELSE table \cup {[key |-> k, kind |-> v]}

\* HashMap::insert: an entry of the same key is replaced
Insert(table, k, v) ==
    {e \in table : e.key /= k} \cup {[key |-> k, kind |-> v]}

\* The body of the loop over the lines of a source, lib.rs:150-170.
ParseLine(table, line) ==
    IF \/ Trim(line) = <<>>
       \/ (TrimStart(line) /= <<>> /\ TrimStart(line)[1] = "#")
    THEN table
    ELSE LET prefix_type == IF Contains(line, NUMERIC_ONLY_MARKER)
                            THEN "NumericOnly" ELSE "Default"
             clean_line  == Trim(BeforeFirst(line, "#"))
         IN  IF clean_line /= <<>>
             THEN Insert(table, clean_line, prefix_type)
             ELSE table

RECURSIVE ParseLines(_, _)
ParseLines(table, lines) ==
    IF lines = <<>> THEN table
    ELSE ParseLines(ParseLine(table, Head(lines)), Tail(lines))

\* The table built from a source text, starting from HashMap::new().
ParseTable(contents) == ParseLines({}, Lines(contents))

---------------------------------------------------------------------------
(* SentenceSplitter::new, lib.rs:130-175.                                  *)

\* Mutant: the pattern without its end anchor, ^[a-z][a-z]
LangRegexUnanchored(l) ==
    /\ Len(l) >= 2
    /\ IsAsciiLower(l[1])
    /\ IsAsciiLower(l[2])

\* Regex ^[a-z][a-z]$ (no multi-line mode: $ is the end of the text)
LangRegexMatch(l) ==
    /\ Len(l) = 2
    /\ IsAsciiLower(l[1])
    /\ IsAsciiLower(l[2])

\* NON_BREAKING_PREFIXES.get(language).cloned().unwrap_or_default()
BundledContents(l) ==
    IF l \in BundledLanguages THEN NON_BREAKING_PREFIXES[l] ELSE <<>>

\* Option<P>: None, or Some(path)
None == [some |-> FALSE, path |-> ""]

Some(p) == [some |-> TRUE, path |-> p]

\* The prefix file of the commented test, lib.rs:453-458.
CustomFileContents ==
    <<"#", " ", "\n", "#", " ", "T", "e", "m", "p", "o", "r", "a", "r",
       "y", " ", "p", "r", "e", "f", "i", "x", " ", "f", "i", "l", "e",
       "\n", "#", " ", "\n", "\n", "P", "r", "e", "f", "i", "x", "1", "\n",
       "P", "r", "e", "f", "i", "x", "2", "\n", "\n">>

\* The files a caller may name: one readable, one that cannot be read.
FileSystem ==
    [p \in {"custom.txt", "missing.txt"} |->
        IF p = "custom.txt"
        THEN [readable |-> TRUE, contents |-> CustomFileContents]
        ELSE [readable |-> FALSE, contents |-> <<>>]]

\* Language codes a caller passes: with a bundled table, without one, and
\* malformed ones.
Languages ==
    {<<"e", "n">>, <<"d", "e">>, <<"x", "x">>,
     <<"E", "N">>, <<"e">>, <<"e", "1">>, <<"e", "n", "x">>, <<>>,
     <<"e", "n", "\n">>}

Files == {None} \cup {Some(p) : p \in DOMAIN FileSystem}

Ok == [kind |-> "Ok", error |-> "", arg |-> <<>>]

Err(e, a) == [kind |-> "Err", error |-> e, arg |-> a]

NoResult == [kind |-> "", error |-> "", arg |-> <<>>]

\* lib.rs:135-140: the language code is rejected.
NewInvalid ==
    /\ UNCHANGED <<non_breaking_prefixes_file_contents, reader>>
    /\ pc = "new"
    /\ ~LangRegexMatch(language)
    /\ new_result' = Err("InvalidLanguageCode", language)
    /\ pc' = "failed"
    /\ UNCHANGED <<language, non_breaking_prefix_file,
                   non_breaking_prefixes, text, chars, i, current,
                   sentences, in_quotes, quote_char, result, resplit, prev>>

\* lib.rs:142-174: the table is built from the bundled source; the file
\* argument is not read.
NewOk ==
    /\ UNCHANGED <<non_breaking_prefixes_file_contents, reader>>
    /\ pc = "new"
    /\ LangRegexMatch(language)
    /\ non_breaking_prefixes' = ParseTable(BundledContents(language))
    /\ new_result' = Ok
    /\ pc' = "ready"
    /\ UNCHANGED <<language, non_breaking_prefix_file, text, chars, i,
                   current, sentences, in_quotes, quote_char, result,
                   resplit, prev>>

---------------------------------------------------------------------------
(* SentenceSplitter::split, lib.rs:182-286: pure parts.                    *)

\* CLEANUP_SPACES.replace_all(text, " "): every maximal run of two or more
\* whitespace characters becomes one space; a single one is kept as it is.
\* A position is kept unless it continues a run of whitespace; a kept
\* whitespace character that starts a run of two or more becomes a space.
CleanupSpaces(s) ==
    LET positions == [k \in 1..Len(s) |-> k]
        kept == SelectSeq(positions,
                    LAMBDA k : \/ ~IsWhitespace(s[k])
                               \/ k = 1
                               \/ ~IsWhitespace(s[k - 1]))
        StartsRun(k) == /\ IsWhitespace(s[k])
                        /\ k < Len(s)
                        /\ IsWhitespace(s[k + 1])
    IN  [j \in 1..Len(kept) |->
            IF StartsRun(kept[j]) THEN " " ELSE s[kept[j]]]

\* Mutant: the text is trimmed and its whitespace runs are kept
NormalizeNoCleanup(t) == Trim(t)

\* lib.rs:188-189: the normalized text; the scan runs on it with a space
\* appended (lib.rs:194-195)
Normalize(t) == Trim(CleanupSpaces(t))

\* lib.rs:205-213: the quote flag and the open quote character after c
TrackQuote(c, inq, qc) ==
    IF c = "\""
    THEN IF ~inq THEN <<TRUE, c>>
         ELSE IF c = qc THEN <<FALSE, qc>> ELSE <<inq, qc>>
    ELSE <<inq, qc>>

\* Mutant: the lookahead loop left out, the next character is chars[i + 1]
NextCharIdxNoSkip(chs, from) == from

\* Mutant: the lookahead stops on the terminator itself
NextCharIdxAtTerminator(chs, from) == from - 1

\* lib.rs:217-220: the 0-based index of the first character at or after
\* from that is no whitespace, Len(chs) if there is none
NextCharIdx(chs, from) ==
    IF \E k \in from..(Len(chs) - 1) : ~IsWhitespace(chs[k + 1])
    THEN CHOOSE k \in from..(Len(chs) - 1) :
             /\ ~IsWhitespace(chs[k + 1])
             /\ \A j \in from..(k - 1) : IsWhitespace(chs[j + 1])
    ELSE Len(chs)

\* \.?[\p{Lu}\-]+\. matched from 1-based position k of s
AcronymAt(s, k) ==
    \E j \in {k} \cup (IF k <= Len(s) /\ s[k] = "." THEN {k + 1} ELSE {}) :
        \E e \in j..(Len(s) - 1) :
            /\ \A m \in j..e : IsUpperOrHyphen(s[m])
            /\ s[e + 1] = "."

\* Mutant: the pattern has to match at the end of s
AcronymAtEnd(s) ==
    \E a \in 1..(Len(s) - 1) :
        /\ \A m \in a..(Len(s) - 1) : IsUpperOrHyphen(s[m])
        /\ s[Len(s)] = "."
        /\ IF a = 1 THEN TRUE
           ELSE IF IsWhitespace(s[a - 1]) THEN TRUE
           ELSE IF s[a - 1] /= "." THEN FALSE
           ELSE IF a = 2 THEN TRUE
           ELSE IsWhitespace(s[a - 2])

\* ACRONYM_RE.is_match(s): (?:^|\s)\.?[\p{Lu}\-]+\. found anywhere in s
ACRONYM_RE(s) ==
    \/ AcronymAt(s, 1)
    \/ \E p \in 1..Len(s) : IsWhitespace(s[p]) /\ AcronymAt(s, p + 1)

\* Mutant: no test of the character before the terminator
TentativeSplitNoParen(chs, idx, inq, next_char) ==
    IF inq THEN FALSE
    ELSE \/ IsUppercase(next_char)
         \/ next_char = "\""
         \/ next_char = "("
         \/ IsNumeric(next_char)
         \/ next_char = "«"

\* Mutant: only an uppercase letter starts a sentence
TentativeSplitUpperOnly(chs, idx, inq, next_char) ==
    IF inq THEN FALSE
    ELSE IF idx > 0 /\ chs[idx] = ")" THEN TRUE
    ELSE IsUppercase(next_char)

\* Mutant: the parenthesis test placed before the quote test
TentativeSplitParenFirst(chs, idx, inq, next_char) ==
    IF idx > 0 /\ chs[idx] = ")" THEN TRUE
    ELSE IF inq THEN FALSE
    ELSE \/ IsUppercase(next_char)
         \/ next_char = "\""
         \/ next_char = "("
         \/ IsNumeric(next_char)
         \/ next_char = "«"

\* lib.rs:236-249: the decision before the prefix table is consulted;
\* idx is the 0-based index of the terminator
TentativeSplit(chs, idx, inq, next_char) ==
    IF inq THEN FALSE
    ELSE IF idx > 0 /\ chs[idx] = ")" THEN TRUE
    ELSE \/ IsUppercase(next_char)
         \/ next_char = "\""
         \/ next_char = "("
         \/ IsNumeric(next_char)
         \/ next_char = "«"

\* Mutant: a NumericOnly key suppresses the boundary like a Default key
PrefixOverrideNumericAsDefault(table, cur, next_char) ==
    ~ContainsKey(table, TrimEndTerminators(LastWord(cur)))

\* Mutant: a Default key suppresses the boundary only before a numeral
PrefixOverrideDefaultAsNumeric(table, cur, next_char) ==
    ContainsKey(table, TrimEndTerminators(LastWord(cur)))
        => ~IsNumeric(next_char)

\* lib.rs:252-267: the decision after the prefix table is consulted, for a
\* fragment cur whose tentative decision was to split
PrefixOverride(table, cur, next_char) ==
    LET current_word     == LastWord(cur)
        word_without_dot == TrimEndTerminators(current_word)
    IN  IF ContainsKey(table, word_without_dot)
        THEN IF Get(table, word_without_dot) = "NumericOnly"
             THEN ~IsNumeric(next_char)
             ELSE FALSE
        ELSE TRUE

\* lib.rs:231-268: should_split at the terminator chars[idx], for the
\* fragment cur that ends in it
ShouldSplit(table, chs, idx, cur, inq) ==
    LET next_char_idx == NextCharIdx(chs, idx + 1)
    IN  IF next_char_idx < Len(chs)
        THEN /\ TentativeSplit(chs, idx, inq, chs[next_char_idx + 1])
             /\ PrefixOverride(table, cur, chs[next_char_idx + 1])
        ELSE FALSE

\* Mutant: the fragment left when the loop ends is not pushed
FinalSentencesNoFinal(sents, cur) ==
    SelectSeq(sents, LAMBDA x : x /= <<>>)

\* Mutant: the last fragment is pushed whatever it holds and nothing is
\* filtered
FinalSentencesUnfiltered(sents, cur) == Append(sents, Trim(cur))

\* lib.rs:280-285: the returned vector
FinalSentences(sents, cur) ==
    LET all == IF cur /= <<>> THEN Append(sents, Trim(cur)) ELSE sents
    IN  SelectSeq(all, LAMBDA x : x /= <<>>)

\* lib.rs:201-277: one iteration of the scan loop on the locals st
LoopBody(table, chs, st) ==
    LET c == chs[st.i + 1]
        cur == Append(st.current, c)
        tq == TrackQuote(c, st.in_quotes, st.quote_char)
    IN  IF /\ IsTerminator(c)
           /\ ~ACRONYM_RE(cur)
           /\ ShouldSplit(table, chs, st.i, cur, tq[1])
        THEN [i |-> (NextCharIdx(chs, st.i + 1) - 1) + 1,
              current |-> <<>>,
              sentences |-> Append(st.sentences, Trim(cur)),
              in_quotes |-> tq[1],
              quote_char |-> tq[2]]
        ELSE [i |-> st.i + 1,
              current |-> cur,
              sentences |-> st.sentences,
              in_quotes |-> tq[1],
              quote_char |-> tq[2]]

\* lib.rs:201-285: the loop run from the locals st to the returned vector
RECURSIVE Loop(_, _, _)
Loop(table, chs, st) ==
    IF st.i < Len(chs) - 1
    THEN Loop(table, chs, LoopBody(table, chs, st))
    ELSE FinalSentences(st.sentences, st.current)

\* lib.rs:182-286: what one call of split returns, as a function of the
\* table of the splitter and of the text
split(table, t) ==
    IF t = <<>> THEN <<>>
    ELSE Loop(table, Append(Normalize(t), " "),
              [i |-> 0, current |-> <<>>, sentences |-> <<>>,
               in_quotes |-> FALSE, quote_char |-> " "])

\* sentences.join(" ") of a caller that splits the output again
RECURSIVE Join(_)
Join(sents) ==
    IF sents = <<>> THEN <<>>
    ELSE IF Len(sents) = 1 THEN sents[1]
    ELSE sents[1] \o <<" ">> \o Join(Tail(sents))

---------------------------------------------------------------------------
(* The inputs of split.                                                    *)

\* Characters of the exhaustively enumerated texts: an uppercase letter,
\* a lowercase letter that is a key of the bundled samples, a digit, two
\* terminators, a space, a straight quote and a closing parenthesis.
Alphabet == {"A", "v", "1", ".", "!", " ", "\"", ")"}

ShortTexts == UNION {[1..n -> Alphabet] : n \in 0..MaxLen}

\* The texts of the tests, lib.rs:330-407 and 451-464.
ParagraphText ==
    <<"T", "h", "i", "s", " ", "i", "s", " ", "a", " ", "p", "a", "r", "a",
       "g", "r", "a", "p", "h", ".", " ", "I", "t", " ", "c", "o", "n",
       "t", "a", "i", "n", "s", " ", "s", "e", "v", "e", "r", "a", "l",
       " ", "s", "e", "n", "t", "e", "n", "c", "e", "s", ".", " ", "\"",
       "B", "u", "t", " ", "w", "h", "y", ",", "\"", " ", "y", "o", "u",
       " ", "a", "s", "k", "?">>

DoubleSpaceText ==
    <<"H", "e", "y", ".", " ", " ", "N", "o", "w", ".">>

EllipsisText ==
    <<"H", "e", "y", ".", ".", ".", " ", "N", "o", "w", ".">>

NumericText ==
    <<"H", "e", "l", "l", "o", ".", " ", "N", "o", ".", " ", "1", ".", " ",
       "N", "o", ".", " ", "2", ".", " ", "P", "r", "e", "f", "i", "x",
       ".", " ", "1", ".", " ", "P", "r", "e", "f", "i", "x", ".", " ",
       "2", ".", " ", "G", "o", "o", "d", " ", "b", "y", "e", ".">>

AcronymText ==
    <<"H", "e", "l", "l", "o", ".", " ", ".", "N", "A", "T", "O", ".", " ",
       "G", "o", "o", "d", " ", "b", "y", "e", ".">>

BracketText ==
    <<"F", "o", "o", " ", "b", "a", "r", ".", " ", "(", "B", "a", "z", " ",
       "f", "o", "o", ".", ")", " ", "B", "a", "r", " ", "b", "a", "z",
       ".">>

DeText ==
    <<"N", "i", "e", " ", "h", "ä", "t", "t", "e", " ", "d", "a", "s", " ",
       "p", "a", "s", "s", "i", "e", "r", "e", "n", " ", "s", "o", "l",
       "l", "e", "n", ".", " ", "D", "r", ".", " ", "S", "o", "l", "t",
       "a", "n", " ", "s", "a", "g", "t", "e", ":", " ", "\"", "D", "e",
       "r", " ", "F", "l", "u", "x", "c", "o", "m", "p", "e", "n", "s",
       "a", "t", "o", "r", " ", "w", "a", "r", " ", "d", "o", "c", "h",
       " ", "k", "a", "l", "i", "b", "r", "i", "e", "r", "t", "!", "\"",
       ".">>

CustomText ==
    <<"H", "e", "l", "l", "o", ".", " ", "P", "r", "e", "f", "i", "x", "1",
       ".", " ", "P", "r", "e", "f", "i", "x", "2", ".", " ", "H", "e",
       "l", "l", "o", " ", "a", "g", "a", "i", "n", ".", " ", "G", "o",
       "o", "d", " ", "b", "y", "e", ".">>

HeyNowText ==
    <<"H", "e", "y", ".", " ", "N", "o", "w", ".">>

PtText ==
    <<"I", "s", "t", "o", " ", "é", " ", "u", "m", " ", "p", "a", "r", "á",
       "g", "r", "a", "f", "o", ".", " ", "C", "o", "n", "t", "é", "m",
       " ", "v", "á", "r", "i", "a", "s", " ", "f", "r", "a", "s", "e",
       "s", ".", " ", "«", "M", "a", "s", " ", "p", "o", "r", "q", "u",
       "ê", ",", "»", " ", "p", "e", "r", "g", "u", "n", "t", "a", "s",
       " ", "t", "u", "?">>

TestTexts ==
    {ParagraphText, DoubleSpaceText, EllipsisText, NumericText, AcronymText,
     BracketText, DeText, CustomText, HeyNowText, PtText}

\* Further texts, with the characters the enumeration leaves out.
ExtraHalf ==
    <<"v", ".", " ", "½">>

ExtraNoHalf ==
    <<"N", "o", ".", " ", "½", " ", "c", "u", "p", ".", " ", "G", "o",
       ".">>

ExtraHyphen ==
    <<"U", "-", "S", ".", " ", "G", "o", ".", " ", "N", "o", "w", ".">>

ExtraDash ==
    <<"-", ".", " ", "A">>

ExtraParen ==
    <<"(", "f", "o", "o", ")", ".", " ", "b", "a", "r">>

ExtraNewline ==
    <<"a", ".", "\n", "B", " ", "c", ".">>

ExtraRuns ==
    <<"	", "H", "e", "y", ".", " ", "\n", " ", "N", "o", "w", ".", "\n">>

ExtraGuillemet ==
    <<"«", "S", "i", "m", ".", "»", " ", "(", "v", ".", ")", " ", "«", "O",
       "k", "!", "»", " ", "F", "i", "m", ".">>

ExtraQuoteParen ==
    <<"H", "e", " ", "s", "a", "i", "d", " ", "\"", "G", "o", ".", " ",
       "(", "N", "o", "w", ")", ".", "\"", " ", "T", "h", "e", "n", ".">>

ExtraParenDots ==
    <<"(", "O", "k", ")", ".", ".", " ", "N", "o", "w", ".">>

ExtraTexts ==
    {ExtraHalf, ExtraNoHalf, ExtraHyphen, ExtraDash, ExtraParen,
     ExtraNewline, ExtraRuns, ExtraGuillemet, ExtraQuoteParen,
     ExtraParenDots}

Inputs == ShortTexts \cup TestTexts \cup ExtraTexts

---------------------------------------------------------------------------
(* SentenceSplitter::split: the calls and the scan loop.                   *)

\* Mutant: the vector of sentences is the one the last call returned
EnterKeepsResult(t) ==
    /\ text' = t
    /\ IF t = <<>>
       THEN /\ pc' = "done"
            /\ result' = <<>>
            /\ UNCHANGED <<chars, i, current, sentences, in_quotes,
                           quote_char>>
       ELSE /\ pc' = "scan"
            /\ chars' = Append(Normalize(t), " ")
            /\ i' = 0
            /\ current' = <<>>
            /\ sentences' = result
            /\ in_quotes' = FALSE
            /\ quote_char' = " "
            /\ UNCHANGED result

\* lib.rs:183-199: the entry of split(t), up to the first loop test
Enter(t) ==
    /\ text' = t
    /\ IF t = <<>>
       THEN /\ pc' = "done"
            /\ result' = <<>>
            /\ UNCHANGED <<chars, i, current, sentences, in_quotes,
                           quote_char>>
       ELSE /\ pc' = "scan"
            /\ chars' = Append(Normalize(t), " ")
            /\ i' = 0
            /\ current' = <<>>
            /\ sentences' = <<>>
            /\ in_quotes' = FALSE
            /\ quote_char' = " "
            /\ UNCHANGED result

\* The first call of split on the splitter new returned.
SplitCall ==
    /\ UNCHANGED <<non_breaking_prefixes_file_contents, reader>>
    /\ pc = "ready"
    /\ \E t \in Inputs : Enter(t)
    /\ resplit' = FALSE
    /\ language' = <<>>
    /\ non_breaking_prefix_file' = None
    /\ UNCHANGED <<new_result, non_breaking_prefixes, prev>>

\* A further call, on the sentences of the last call joined by a space.
Resplit ==
    /\ UNCHANGED <<non_breaking_prefixes_file_contents, reader>>
    /\ pc = "done"
    /\ ~resplit
    /\ Enter(Join(result))
    /\ resplit' = TRUE
    /\ prev' = result
    /\ UNCHANGED <<language, non_breaking_prefix_file, new_result,
                   non_breaking_prefixes>>

InLoop == pc = "scan" /\ i < Len(chars) - 1

\* the character scanned by this iteration, and current after the push
C == chars[i + 1]

Fragment == Append(current, C)

Tracked == TrackQuote(C, in_quotes, quote_char)

\* lib.rs:202-213, 276: an iteration on a character that ends no sentence
ScanChar ==
    /\ UNCHANGED <<non_breaking_prefixes_file_contents, reader>>
    /\ InLoop
    /\ ~IsTerminator(C)
    /\ current' = Fragment
    /\ in_quotes' = Tracked[1]
    /\ quote_char' = Tracked[2]
    /\ i' = i + 1
    /\ UNCHANGED <<pc, language, non_breaking_prefix_file, new_result,
                   non_breaking_prefixes, text, chars, sentences, result,
                   resplit, prev>>

\* lib.rs:226-229: an iteration on a terminator of a fragment that matches
\* the acronym pattern
ScanAcronym ==
    /\ UNCHANGED <<non_breaking_prefixes_file_contents, reader>>
    /\ InLoop
    /\ IsTerminator(C)
    /\ ACRONYM_RE(Fragment)
    /\ current' = Fragment
    /\ i' = i + 1
    /\ UNCHANGED <<pc, language, non_breaking_prefix_file, new_result,
                   non_breaking_prefixes, text, chars, sentences, in_quotes,
                   quote_char, result, resplit, prev>>

\* lib.rs:231-268, 276: an iteration on a terminator that is no boundary
ScanNoSplit ==
    /\ UNCHANGED <<non_breaking_prefixes_file_contents, reader>>
    /\ InLoop
    /\ IsTerminator(C)
    /\ ~ACRONYM_RE(Fragment)
    /\ ~ShouldSplit(non_breaking_prefixes, chars, i, Fragment, in_quotes)
    /\ current' = Fragment
    /\ i' = i + 1
    /\ UNCHANGED <<pc, language, non_breaking_prefix_file, new_result,
                   non_breaking_prefixes, text, chars, sentences, in_quotes,
                   quote_char, result, resplit, prev>>

\* lib.rs:270-276: an iteration on a terminator that is a boundary
ScanSplit ==
    /\ UNCHANGED <<non_breaking_prefixes_file_contents, reader>>
    /\ InLoop
    /\ IsTerminator(C)
    /\ ~ACRONYM_RE(Fragment)
    /\ ShouldSplit(non_breaking_prefixes, chars, i, Fragment, in_quotes)
    /\ sentences' = Append(sentences, Trim(Fragment))
    /\ current' = <<>>
    /\ i' = (NextCharIdx(chars, i + 1) - 1) + 1
    /\ UNCHANGED <<pc, language, non_breaking_prefix_file, new_result,
                   non_breaking_prefixes, text, chars, in_quotes,
                   quote_char, result, resplit, prev>>

\* lib.rs:279-285: the loop is left and split returns
Finish ==
    /\ UNCHANGED <<non_breaking_prefixes_file_contents, reader>>
    /\ pc = "scan"
    /\ ~(i < Len(chars) - 1)
    /\ result' = FinalSentences(sentences, current)
    /\ pc' = "done"
    /\ chars' = <<>>
    /\ i' = 0
    /\ current' = <<>>
    /\ sentences' = <<>>
    /\ in_quotes' = FALSE
    /\ quote_char' = " "
    /\ UNCHANGED <<language, non_breaking_prefix_file, new_result,
                   non_breaking_prefixes, text, resplit, prev>>

---------------------------------------------------------------------------
(* The specification.                                                      *)

Init ==
    /\ pc = "new"
    /\ language \in Languages
    /\ non_breaking_prefix_file \in Files
    /\ new_result = NoResult
    /\ non_breaking_prefixes = {}
    /\ text = <<>>
    /\ chars = <<>>
    /\ i = 0
    /\ current = <<>>
    /\ sentences = <<>>
    /\ in_quotes = FALSE
    /\ quote_char = " "
    /\ result = <<>>
    /\ resplit = FALSE
    /\ prev = <<>>
    /\ non_breaking_prefixes_file_contents = <<>>
    /\ reader = <<>>

Next ==
    \/ NewInvalid
    \/ NewOk
    \/ SplitCall
    \/ Resplit
    \/ ScanChar
    \/ ScanAcronym
    \/ ScanNoSplit
    \/ ScanSplit
    \/ Finish

Spec == Init /\ [][Next]_vars

---------------------------------------------------------------------------
(* The loader of new, lib.rs:142-175, run line by line on any source.      *)

\* Lines a prefix source is made of: blank ones, comments, keys with and
\* without the marker, with and without spaces and trailing comments.
LinePool ==
    {
      <<>>,
      <<" ", "	">>,
      <<"#", " ", "D", "r">>,
      <<" ", "#", "N", "U", "M", "E", "R", "I", "C", "_", "O", "N", "L",
        "Y", "#">>,
      <<"D", "r">>,
      <<" ", "D", "r", " ", "#", " ", "x">>,
      <<"D", "r", " ", "#", "N", "U", "M", "E", "R", "I", "C", "_", "O",
        "N", "L", "Y", "#">>,
      <<"a", " ", "b", "#", "N", "U", "M", "E", "R", "I", "C", "_", "O",
        "N", "L", "Y", "#", "c">>
    }

\* the lines, each ended by a line feed
RECURSIVE JoinLines(_)
JoinLines(ls) ==
    IF ls = <<>> THEN <<>>
    ELSE Head(ls) \o <<"\n">> \o JoinLines(Tail(ls))

\* The source texts: up to MaxLines lines of the pool.
Sources ==
    {JoinLines(ls) : ls \in UNION {[1..n -> LinePool] : n \in 0..MaxLines}}

\* lib.rs:142-149: the empty table and the reader over the source
InitParse ==
    /\ pc = "load"
    /\ language = <<"e", "n">>
    /\ non_breaking_prefix_file = None
    /\ new_result = NoResult
    /\ non_breaking_prefixes = {}
    /\ non_breaking_prefixes_file_contents \in Sources
    /\ reader = Lines(non_breaking_prefixes_file_contents)
    /\ text = <<>>
    /\ chars = <<>>
    /\ i = 0
    /\ current = <<>>
    /\ sentences = <<>>
    /\ in_quotes = FALSE
    /\ quote_char = " "
    /\ result = <<>>
    /\ resplit = FALSE
    /\ prev = <<>>

\* lib.rs:150-170: one iteration of the loop over the lines
LoadLine ==
    /\ pc = "load"
    /\ reader /= <<>>
    /\ non_breaking_prefixes' =
           ParseLine(non_breaking_prefixes, Head(reader))
    /\ reader' = Tail(reader)
    /\ UNCHANGED <<pc, language, non_breaking_prefix_file, new_result,
                   text, chars, i, current, sentences, in_quotes,
                   quote_char, result, resplit, prev,
                   non_breaking_prefixes_file_contents>>

\* lib.rs:172-174: the lines are exhausted and new returns the splitter
LoadDone ==
    /\ pc = "load"
    /\ reader = <<>>
    /\ new_result' = Ok
    /\ pc' = "ready"
    /\ UNCHANGED <<language, non_breaking_prefix_file,
                   non_breaking_prefixes, text, chars, i, current,
                   sentences, in_quotes, quote_char, result, resplit, prev,
                   non_breaking_prefixes_file_contents, reader>>

NextParse ==
    \/ LoadLine
    \/ LoadDone

SpecParse == InitParse /\ [][NextParse]_vars

---------------------------------------------------------------------------
(* Shared notions of the properties.                                       *)

\* the characters of s that are no whitespace, in order
NonWs(s) == SelectSeq(s, LAMBDA c : ~IsWhitespace(c))

\* the sentences one after the other
RECURSIVE Concat(_)
Concat(sents) ==
    IF sents = <<>> THEN <<>> ELSE Head(sents) \o Concat(Tail(sents))

\* number of positions of s holding c
Count(s, c) == Cardinality({k \in 1..Len(s) : s[k] = c})

\* the tables of the bundled samples
EnTable == ParseTable(EnSource)

DeTable == ParseTable(DeSource)

\* The scan is at a terminator: the loop is about to run on one.
AtTerminator == InLoop /\ IsTerminator(C)

\* the next character that is no whitespace (AtTerminator, HasNext)
HasNext == NextCharIdx(chars, i + 1) < Len(chars)

NextChar == chars[NextCharIdx(chars, i + 1) + 1]

\* the fragment's last token with its trailing terminators stripped
Token == TrimEndTerminators(LastWord(Fragment))

\* this step pushes a sentence
Emits == Len(sentences') = Len(sentences) + 1

\* a tentative boundary was found at this terminator
TentativeHere ==
    /\ AtTerminator
    /\ ~ACRONYM_RE(Fragment)
    /\ ~in_quotes
    /\ HasNext
    /\ \/ (i > 0 /\ chars[i] = ")")
       \/ IsUppercase(NextChar)
       \/ IsNumeric(NextChar)
       \/ NextChar \in {"\"", "(", "«"}

---------------------------------------------------------------------------
(* C1.  No loss: when split returns, the non-whitespace characters of the *)
(* returned sentences, read in output order, are exactly the               *)
(* non-whitespace characters of the normalized input in their order, and   *)
(* the sentences hold no more characters than the normalized input, so     *)
(* the trailing space pushed onto chars is never emitted.                  *)
C1_NoLoss ==
    pc = "done" =>
        /\ NonWs(Concat(result)) = NonWs(Normalize(text))
        /\ Len(Concat(result)) <= Len(Normalize(text))

\* split returned two sentences of a text whose whitespace was normalized
C1_Witness ==
    /\ pc = "done"
    /\ ~resplit
    /\ text = ExtraRuns
    /\ Len(result) = 2

---------------------------------------------------------------------------
(* C2.  Acronym over-suppression test: an "en" splitter returns the text   *)
(* "Hello. .NATO. Good bye." as one sentence, the whole input.             *)
C2_AcronymTest ==
    (pc = "done" /\ text = AcronymText /\ non_breaking_prefixes = EnTable)
        => result = <<AcronymText>>

---------------------------------------------------------------------------
(* C3.  Parenthetical forced split: "Foo bar. (Baz foo.) Bar baz." is      *)
(* returned as the three sentences "Foo bar.", "(Baz foo.)", "Bar baz.".   *)
BracketExpected ==
    <<
      <<"F", "o", "o", " ", "b", "a", "r", ".">>,
      <<"(", "B", "a", "z", " ", "f", "o", "o", ".", ")">>,
      <<"B", "a", "r", " ", "b", "a", "z", ".">>
    >>

C3_BracketTest ==
    (pc = "done" /\ text = BracketText /\ non_breaking_prefixes = EnTable)
        => result = BracketExpected

---------------------------------------------------------------------------
(* C4.  Prefix-file precedence: when new is given a prefix file that can   *)
(* be read, the table of the splitter it returns is the one built from     *)
(* the entries of that file.                                               *)
C4_FilePrecedence ==
    (/\ pc = "ready"
     /\ non_breaking_prefix_file.some
     /\ FileSystem[non_breaking_prefix_file.path].readable)
        => non_breaking_prefixes =
               ParseTable(FileSystem[non_breaking_prefix_file.path].contents)

---------------------------------------------------------------------------
(* C5.  Unreadable prefix file: new called with a valid language code and  *)
(* a prefix file that cannot be read fails with IoError or                 *)
(* PrefixFileNotFound and returns no splitter.                             *)
C5_UnreadableFile ==
    (/\ pc \in {"ready", "failed"}
     /\ LangRegexMatch(language)
     /\ non_breaking_prefix_file.some
     /\ ~FileSystem[non_breaking_prefix_file.path].readable)
        => /\ pc = "failed"
           /\ new_result.kind = "Err"
           /\ new_result.error \in {"IoError", "PrefixFileNotFound"}

---------------------------------------------------------------------------
(* C6.  Language-code validation: new fails with InvalidLanguageCode(code) *)
(* and no table built exactly when the code is not two lowercase ASCII     *)
(* letters; a two-letter lowercase code succeeds, and one without a        *)
(* bundled table yields a splitter with an empty table.                    *)
TwoLowercaseLetters(l) ==
    /\ Len(l) = 2
    /\ \A k \in 1..2 :
           l[k] \in {"a", "b", "c", "d", "e", "f", "g", "h", "i", "j", "k",
                     "l", "m", "n", "o", "p", "q", "r", "s", "t", "u", "v",
                     "w", "x", "y", "z"}

C6_LanguageCode ==
    (pc \in {"ready", "failed"} /\ new_result /= NoResult) =>
        /\ (new_result = Err("InvalidLanguageCode", language))
               <=> ~TwoLowercaseLetters(language)
        /\ pc = "failed" <=> ~TwoLowercaseLetters(language)
        /\ pc = "failed" => non_breaking_prefixes = {}
        /\ TwoLowercaseLetters(language) => new_result = Ok
        /\ (TwoLowercaseLetters(language) /\ language \notin BundledLanguages)
               => non_breaking_prefixes = {}

\* new returned a splitter with an empty table for the code "xx"
C6_Witness ==
    /\ pc = "ready"
    /\ language = <<"x", "x">>
    /\ new_result = Ok
    /\ non_breaking_prefixes = {}

---------------------------------------------------------------------------
(* C7.  Idempotence of re-splitting: splitting the returned sentences      *)
(* joined by single spaces returns the same sentences.                     *)
C7_Idempotent ==
    (pc = "done" /\ resplit) => result = prev

\* the second split returned, with more than one sentence, for a text in
\* which the join put a space where the first input had none
C7_Witness ==
    /\ pc = "done"
    /\ resplit
    /\ Len(result) >= 2
    /\ text = <<"A", "!", " ", "A">>

---------------------------------------------------------------------------
(* C8.  NumericOnly prefix override.                                       *)

\* lib.rs:369-378: the sentences expected of NumericText
NumericExpected ==
    <<
      <<"H", "e", "l", "l", "o", ".">>,
      <<"N", "o", ".", " ", "1", ".">>,
      <<"N", "o", ".", " ", "2", ".">>,
      <<"P", "r", "e", "f", "i", "x", ".">>,
      <<"1", ".">>,
      <<"P", "r", "e", "f", "i", "x", ".">>,
      <<"2", ".">>,
      <<"G", "o", "o", "d", " ", "b", "y", "e", ".">>
    >>

\* the token of the fragment is a key of the given kind
TokenIs(kind) ==
    /\ ContainsKey(non_breaking_prefixes, Token)
    /\ Get(non_breaking_prefixes, Token) = kind

\* With "No" NumericOnly and "Prefix" absent, NumericText is split as the
\* test expects.
NumericTestHolds ==
    (/\ pc = "done"
     /\ text = NumericText
     /\ [key |-> <<"N", "o">>, kind |-> "NumericOnly"]
            \in non_breaking_prefixes
     /\ ~ContainsKey(non_breaking_prefixes,
                     <<"P", "r", "e", "f", "i", "x">>))
        => result = NumericExpected

(* C8 as stated: at a terminator where a tentative boundary was found, a   *)
(* NumericOnly token makes the step emit a boundary iff the next           *)
(* non-whitespace character is not a digit; a token absent from the table  *)
(* leaves the boundary standing; and the test text is split as expected.   *)
C8_Original ==
    [][/\ (TentativeHere /\ TokenIs("NumericOnly"))
              => (Emits <=> NextChar \notin Digits)
       /\ (TentativeHere /\ ~ContainsKey(non_breaking_prefixes, Token))
              => Emits
       /\ NumericTestHolds']_vars

(* C8 as amended: at a terminator where a tentative boundary was found, a  *)
(* NumericOnly token makes the step emit a boundary iff the next           *)
(* non-whitespace character is not numeric (char::is_numeric: a digit or   *)
(* any other character of the Unicode categories Nd, Nl, No, such as '½'); *)
(* a token absent from the table leaves the boundary standing; and the     *)
(* test text is split as expected.                                         *)
C8_NumericOnly ==
    [][/\ (TentativeHere /\ TokenIs("NumericOnly"))
              => (Emits <=> ~IsNumeric(NextChar))
       /\ (TentativeHere /\ ~ContainsKey(non_breaking_prefixes, Token))
              => Emits
       /\ NumericTestHolds']_vars

\* the scan is at a terminator after a NumericOnly token, and the next
\* character is numeric without being a digit
C8_Witness ==
    /\ TentativeHere
    /\ TokenIs("NumericOnly")
    /\ IsNumeric(NextChar)
    /\ NextChar \notin Digits

---------------------------------------------------------------------------
(* C9.  Default prefix unconditional suppression: no returned sentence     *)
(* other than the last ends in a token that, with its trailing '.', '!',   *)
(* '?' stripped, is a Default key of the table.                            *)
C9_DefaultPrefix ==
    pc = "done" =>
        \A k \in 1..(Len(result) - 1) :
            LET w == TrimEndTerminators(LastWord(result[k]))
            IN  [key |-> w, kind |-> "Default"] \notin non_breaking_prefixes

\* the German test text was split in two, "Dr. Soltan" left in one piece
C9_Witness ==
    /\ pc = "done"
    /\ ~resplit
    /\ text = DeText
    /\ [key |-> <<"D", "r">>, kind |-> "Default"] \in non_breaking_prefixes
    /\ Len(result) = 2

---------------------------------------------------------------------------
(* C10.  Never split inside an open quote: the quote flag is set exactly   *)
(* when an odd number of straight double quotes was scanned since the call *)
(* began; a step at a terminator with the flag set emits no boundary,      *)
(* whether the terminator follows ')' or a sentence starter follows it;    *)
(* and every returned sentence but the last holds an even number of '"'.   *)
QuoteFlagIsParity ==
    pc = "scan" =>
        (in_quotes <=> Count(SubSeq(chars, 1, i), "\"") % 2 = 1)

EvenQuotes ==
    pc = "done" =>
        \A k \in 1..(Len(result) - 1) : Count(result[k], "\"") % 2 = 0

C10_NoSplitInQuotes ==
    [][/\ (AtTerminator /\ in_quotes) => ~Emits
       /\ QuoteFlagIsParity'
       /\ EvenQuotes']_vars

\* the scan is inside an open quote at a terminator that follows ')' and
\* is followed by a sentence starter
C10_Witness ==
    /\ AtTerminator
    /\ in_quotes
    /\ i > 0
    /\ chars[i] = ")"
    /\ HasNext
    /\ IsUppercase(NextChar)

---------------------------------------------------------------------------
(* C11.  Default continuation test.                                        *)

\* the terminator is reached with the acronym pattern unmatched, the quote
\* flag clear, no ')' before it, a next character, and a token that is no
\* key of the table
ContinuationCase ==
    /\ AtTerminator
    /\ ~ACRONYM_RE(Fragment)
    /\ ~in_quotes
    /\ ~(i > 0 /\ chars[i] = ")")
    /\ HasNext
    /\ ~ContainsKey(non_breaking_prefixes, Token)

HeyNowExpected ==
    <<
      <<"H", "e", "y", ".">>,
      <<"N", "o", "w", ".">>
    >>

HeyNowTestHolds ==
    (pc = "done" /\ text = HeyNowText) => result = HeyNowExpected

(* C11 as stated: in the continuation case the step emits a boundary iff   *)
(* the next non-whitespace character is an uppercase letter, a digit, '"', *)
(* '(' or '«'; "Hey. Now." is split in two.                                *)
C11_Original ==
    [][/\ ContinuationCase =>
              (Emits <=> \/ NextChar \in UpperLetters
                         \/ NextChar \in Digits
                         \/ NextChar \in {"\"", "(", "«"})
       /\ HeyNowTestHolds']_vars

(* C11 as amended: in the continuation case the step emits a boundary iff  *)
(* the next non-whitespace character is an uppercase letter, a numeric     *)
(* character (char::is_numeric: a digit or any other character of the      *)
(* Unicode categories Nd, Nl, No, such as '½'), '"', '(' or '«'; so        *)
(* "Hey. Now." is split in two and a lowercase next character never        *)
(* splits.                                                                 *)
C11_Continuation ==
    [][/\ ContinuationCase =>
              (Emits <=> \/ NextChar \in UpperLetters
                         \/ NextChar \in Digits \cup OtherNumerics
                         \/ NextChar \in {"\"", "(", "«"})
       /\ HeyNowTestHolds']_vars

\* the continuation case with a guillemet as the next character
C11_Witness ==
    /\ ContinuationCase
    /\ NextChar = "«"

---------------------------------------------------------------------------
(* C12.  Output well-formedness.                                           *)

\* s is not empty and neither starts nor ends with whitespace
WellFormed(s) ==
    /\ s /= <<>>
    /\ ~IsWhitespace(s[1])
    /\ ~IsWhitespace(s[Len(s)])

\* every character of t is whitespace (the empty text included)
OnlyWhitespace(t) == \A k \in 1..Len(t) : IsWhitespace(t[k])

(* C12: every returned string is non-empty and has no leading or trailing  *)
(* whitespace; the empty input and an input of whitespace only return the  *)
(* empty sequence.                                                         *)
C12_WellFormed ==
    pc = "done" =>
        /\ \A k \in 1..Len(result) : WellFormed(result[k])
        /\ OnlyWhitespace(text) => result = <<>>

\* a call returned two sentences for an input with whitespace at both ends
\* and around the boundary
C12_Witness ==
    /\ pc = "done"
    /\ text = ExtraRuns
    /\ Len(result) = 2

---------------------------------------------------------------------------
(* C13.  Whitespace normalization.                                         *)

\* s holds two whitespace characters in a row
DoubleWhitespace(s) ==
    \E k \in 1..(Len(s) - 1) : IsWhitespace(s[k]) /\ IsWhitespace(s[k + 1])

(* C13: the scan runs on the text with every run of two or more whitespace *)
(* characters collapsed to one space and the ends trimmed, so a call on t  *)
(* returns what a call on normalize(t) returns, no returned sentence holds *)
(* two whitespace characters in a row, and "Hey.  Now." gives the result   *)
(* of "Hey. Now.".                                                         *)
C13_Normalization ==
    /\ pc = "scan" =>
          /\ chars = Append(Normalize(text), " ")
          /\ ~DoubleWhitespace(Normalize(text))
          /\ Normalize(Normalize(text)) = Normalize(text)
    /\ pc = "done" =>
          /\ result = split(non_breaking_prefixes, Normalize(text))
          /\ \A k \in 1..Len(result) : ~DoubleWhitespace(result[k])
          /\ text = DoubleSpaceText =>
                result = split(non_breaking_prefixes, HeyNowText)

\* a call on the text with the double space returned the two sentences
C13_Witness ==
    /\ pc = "done"
    /\ text = DoubleSpaceText
    /\ DoubleWhitespace(text)
    /\ result = HeyNowExpected

---------------------------------------------------------------------------
(* C14.  No state is kept from one call to the next.                       *)

\* the locals of the running call
Locals ==
    [i |-> i, current |-> current, sentences |-> sentences,
     in_quotes |-> in_quotes, quote_char |-> quote_char]

---------------------------------------------------------------------------
(* C15.  Totality and termination of split.                                *)

\* the 0-based index k is an index of chars
InBounds(k) == k >= 0 /\ k < Len(chars)

(* C15: during a call chars is never empty, so chars.len() - 1 does not    *)
(* underflow; every iteration reads chars[i], chars[i - 1] and             *)
(* chars[next_char_idx] inside chars and computes next_char_idx - 1 >= 0;  *)
(* and every iteration, one that emits a boundary and jumps included,      *)
(* leaves i strictly greater and at most chars.len() - 1, so the loop ends *)
(* after at most chars.len() - 1 iterations.                               *)
C15_Totality ==
    [][/\ pc = "scan" => Len(chars) >= 1 /\ i >= 0 /\ i <= Len(chars) - 1
       /\ InLoop =>
             /\ InBounds(i)
             /\ pc' = "scan"
             /\ i' > i
             /\ i' <= Len(chars) - 1
             /\ Len(chars) - 1 - i' < Len(chars) - 1 - i
       /\ AtTerminator =>
             LET next_char_idx == NextCharIdx(chars, i + 1)
             IN  /\ next_char_idx >= i + 1
                 /\ next_char_idx <= Len(chars)
                 /\ next_char_idx - 1 >= 0
                 /\ next_char_idx < Len(chars) => InBounds(next_char_idx)
                 /\ i > 0 => InBounds(i - 1)
                 /\ Emits => i' = next_char_idx]_vars

\* a boundary was just emitted and the index jumped over whitespace
C15_Witness ==
    /\ pc = "scan"
    /\ sentences /= <<>>
    /\ current = <<>>
    /\ i > 1
    /\ IsWhitespace(chars[i])
    /\ i < Len(chars) - 1

---------------------------------------------------------------------------
(* C16.  Ellipsis.                                                         *)

\* 1-based positions of the first and the last dot of the run of dots the
\* scan is in (C = ".")
RunFirst ==
    CHOOSE p \in 1..(i + 1) :
        /\ \A q \in p..(i + 1) : chars[q] = "."
        /\ p > 1 => chars[p - 1] /= "."

RunLast ==
    CHOOSE p \in (i + 1)..Len(chars) :
        /\ \A q \in (i + 1)..p : chars[q] = "."
        /\ p < Len(chars) => chars[p + 1] /= "."

\* the scan is on a dot of a run of two or more dots that is followed by
\* whitespace and an uppercase letter, the fragment is not suppressed by
\* the acronym pattern, the quote flag is clear and the token is no key
EllipsisCase ==
    /\ AtTerminator
    /\ C = "."
    /\ RunLast > RunFirst
    /\ RunLast + 2 <= Len(chars)
    /\ IsWhitespace(chars[RunLast + 1])
    /\ IsUppercase(chars[RunLast + 2])
    /\ ~ACRONYM_RE(Fragment)
    /\ ~in_quotes
    /\ ~ContainsKey(non_breaking_prefixes, Token)

EllipsisExpected ==
    <<
      <<"H", "e", "y", ".", ".", ".">>,
      <<"N", "o", "w", ".">>
    >>

EllipsisTestHolds ==
    (pc = "done" /\ text = EllipsisText) => result = EllipsisExpected

---------------------------------------------------------------------------
(* C17.  Acronym suppression.                                              *)

\* s holds, anywhere, a run of uppercase letters and hyphens that follows
\* the start of s or a whitespace character, with at most one dot in
\* between, and that is followed by a dot
HasAcronym(s) ==
    \E a \in 1..Len(s) : \E b \in a..(Len(s) - 1) :
        /\ \A m \in a..b : s[m] \in UpperLetters \cup {"-"}
        /\ s[b + 1] = "."
        /\ \/ a = 1
           \/ IsWhitespace(s[a - 1])
           \/ s[a - 1] = "." /\ (a = 2 \/ IsWhitespace(s[a - 2]))

\* the fragment of the running call holds an acronym
Suppressed == pc = "scan" /\ HasAcronym(current)

---------------------------------------------------------------------------
(* C18.  Closing-parenthesis rule.                                         *)

\* the terminator follows a ')' immediately, the quote flag is clear, the
\* fragment is not suppressed, there is a next character and the token is
\* no key of the table
ParenCase ==
    /\ AtTerminator
    /\ i > 0
    /\ chars[i] = ")"
    /\ ~in_quotes
    /\ ~ACRONYM_RE(Fragment)
    /\ HasNext
    /\ ~ContainsKey(non_breaking_prefixes, Token)

ParenExpected ==
    <<
      <<"(", "f", "o", "o", ")", ".">>,
      <<"b", "a", "r">>
    >>

(* C18: at a terminator that immediately follows ')' (quote flag clear, no *)
(* acronym match, a next character, token not in the table) a boundary is  *)
(* emitted whatever the next character is, a lowercase letter included:    *)
(* "(foo). bar" gives "(foo)." and "bar".                                  *)
C18_ClosingParen ==
    [][/\ ParenCase =>
             /\ Emits
             /\ sentences' = Append(sentences, Trim(Fragment))
       /\ (pc' = "done" /\ text' = ExtraParen) => result' = ParenExpected]_vars

\* the rule is about to act before a lowercase letter
C18_Witness ==
    /\ ParenCase
    /\ NextChar \in {"v", "b"}

---------------------------------------------------------------------------
(* C19.  Prefix-table parsing.                                             *)

\* the lines of the source the loader was given
SourceLines == Lines(non_breaking_prefixes_file_contents)

\* the text of a line before its first '#', trimmed
KeyOf(line) == Trim(BeforeFirst(line, "#"))

\* the kind a line asks for
KindOf(line) ==
    IF Contains(line, NUMERIC_ONLY_MARKER) THEN "NumericOnly" ELSE "Default"

\* a line that is not blank, whose first character other than whitespace
\* is not '#', and whose text before the first '#' is not empty once
\* trimmed
Qualifies(line) ==
    /\ \E k \in 1..Len(line) : ~IsWhitespace(line[k])
    /\ line[FirstNonWs(line)] /= "#"
    /\ KeyOf(line) /= <<>>

\* the numbers of the qualifying lines of the source
QualifyingLines ==
    {k \in 1..Len(SourceLines) : Qualifies(SourceLines[k])}

\* the last qualifying line with the key k
LastLineOf(k) ==
    CHOOSE n \in QualifyingLines :
        /\ KeyOf(SourceLines[n]) = k
        /\ \A m \in QualifyingLines :
               KeyOf(SourceLines[m]) = k => m <= n

(* C19 as stated: the table new returns holds one entry for each           *)
(* qualifying line of the source and no other entry; the key of the entry  *)
(* of a line is the line's text before the first '#', trimmed, and its     *)
(* kind is NumericOnly iff the whole line holds the marker; the empty key  *)
(* is never in the table.                                                  *)
C19_Original ==
    pc = "ready" =>
        /\ non_breaking_prefixes =
               {[key |-> KeyOf(SourceLines[n]),
                 kind |-> KindOf(SourceLines[n])] : n \in QualifyingLines}
        /\ ~ContainsKey(non_breaking_prefixes, <<>>)

(* C19 as amended: the table new returns holds one entry for each distinct *)
(* key of the qualifying lines of the source and no other entry; the kind  *)
(* of an entry is the one asked for by the last qualifying line with that  *)
(* key (NumericOnly iff that whole line holds the marker); the empty key   *)
(* is never in the table.                                                  *)
C19_PrefixParsing ==
    pc = "ready" =>
        /\ {e.key : e \in non_breaking_prefixes} =
               {KeyOf(SourceLines[n]) : n \in QualifyingLines}
        /\ Cardinality(non_breaking_prefixes) =
               Cardinality({KeyOf(SourceLines[n]) : n \in QualifyingLines})
        /\ \A e \in non_breaking_prefixes :
               e.kind = KindOf(SourceLines[LastLineOf(e.key)])
        /\ ~ContainsKey(non_breaking_prefixes, <<>>)
        /\ non_breaking_prefixes =
               ParseTable(non_breaking_prefixes_file_contents)

\* new returned a table for a source with a comment and two qualifying
\* lines of one key that ask for different kinds
C19_Witness ==
    /\ pc = "ready"
    /\ Len(SourceLines) = 3
    /\ Cardinality(QualifyingLines) = 2
    /\ \E m, n \in QualifyingLines :
          /\ m < n
          /\ KeyOf(SourceLines[m]) = KeyOf(SourceLines[n])
          /\ KindOf(SourceLines[m]) = "NumericOnly"
          /\ KindOf(SourceLines[n]) = "Default"
    /\ Cardinality(non_breaking_prefixes) = 1

=============================================================================
